---- MODULE Spec2Model ----
(***************************************************************************)
(* Model of the alarm-timeline aggregation and fault prediction pipeline:  *)
(*   detecterv5.py  - predict_future_faults and its helpers (inference)    *)
(*   trainerv3.py   - grouping, weak labelling and the temporal dataset    *)
(*   dashboardv2.py - the e-mail action centre and its signature cache     *)
(*                                                                         *)
(* Text (column headers, cells) is a sequence of one-character strings, so *)
(* that strip / lower / replace / split / regex matching are computed      *)
(* character by character as the Python code computes them.  Fixed names   *)
(* of the code ("raised_on", alarm tokens, fault labels) are TLA+ strings; *)
(* Join turns a character sequence into such a string for comparison.      *)
(***************************************************************************)
EXTENDS Integers, Sequences, FiniteSets, TLC

VARIABLES
    raw_df,           \* the caller's table object: [columns, rows]
    artifacts,        \* loaded model bundle: [vocab, classes, proba]
    calls,            \* outcomes of the predict_future_faults calls so far
    train_in,         \* trainer: concatenated frame returned by load_alarm_files
    train_out,        \* trainer: [done, X_seq, y_seq, timeline]
    view,             \* dashboard: result set currently shown (team -> content)
    sent_signatures,  \* dashboard: st.session_state.sent_signatures
    outbox,           \* dashboard: digests handed to SMTP successfully, in order
    alarm_group,      \* weak labeler: the alarm tokens of one window
    fault_labels,     \* weak labeler: the labels appended for that window
    descriptor,       \* location key: the comma-separated segments of a location_info cell
    location_keys     \* location key: the keys both build_location_key functions return

unitVars == <<alarm_group, fault_labels, descriptor, location_keys>>
vars == <<raw_df, artifacts, calls, train_in, train_out, view, sent_signatures, outbox,
          unitVars>>

(***************************************************************************)
(* Characters and strings                                                  *)
(***************************************************************************)
Uppers == <<"A","B","C","D","E","F","G","H","I","J","K","L","M",
            "N","O","P","Q","R","S","T","U","V","W","X","Y","Z">>
Lowers == <<"a","b","c","d","e","f","g","h","i","j","k","l","m",
            "n","o","p","q","r","s","t","u","v","w","x","y","z">>
DigitChars == <<"0","1","2","3","4","5","6","7","8","9">>

\* The characters of the model in code-point order (sorting of group keys).
Ascii == <<"\n", " ", "!", "+", ",", "-">> \o DigitChars \o <<":", "?">> \o Uppers
         \o <<"_">> \o Lowers \o <<"|">>

Whitespace == {" ", "\n"}

InSeq(seq, c) == \E i \in 1..Len(seq) : seq[i] = c
IndexOf(seq, c) == CHOOSE i \in 1..Len(seq) : seq[i] = c
Chars == {Ascii[i] : i \in 1..Len(Ascii)}
OrdOf == [c \in Chars |-> IndexOf(Ascii, c)]
Ord(c) == OrdOf[c]
DigitSet == {DigitChars[i] : i \in 1..Len(DigitChars)}
IsDigit(c) == c \in DigitSet
DigitVal(c) == IndexOf(DigitChars, c) - 1

RECURSIVE Join(_)
Join(s) == IF s = <<>> THEN "" ELSE Head(s) \o Join(Tail(s))

\* str.lower()
LowerOf == [c \in Chars |-> IF InSeq(Uppers, c) THEN Lowers[IndexOf(Uppers, c)] ELSE c]
LowerChar(c) == LowerOf[c]
StrLower(s) == [i \in 1..Len(s) |-> LowerChar(s[i])]

\* str.strip()
RECURSIVE LStrip(_)
LStrip(s) == IF s # <<>> /\ Head(s) \in Whitespace THEN LStrip(Tail(s)) ELSE s
RECURSIVE RStrip(_)
RStrip(s) == IF s # <<>> /\ s[Len(s)] \in Whitespace
             THEN RStrip(SubSeq(s, 1, Len(s) - 1)) ELSE s
StrStrip(s) == RStrip(LStrip(s))

\* str.replace(a, b) for one-character a and b
StrReplace(s, a, b) == [i \in 1..Len(s) |-> IF s[i] = a THEN b ELSE s[i]]

\* sub in s
Contains(s, sub) ==
    \E i \in 1..(Len(s) - Len(sub) + 1) : SubSeq(s, i, i + Len(sub) - 1) = sub

\* s.split(sep) for a one-character sep
RECURSIVE SplitAcc(_, _, _)
SplitAcc(s, sep, cur) ==
    IF s = <<>> THEN <<cur>>
    ELSE IF Head(s) = sep THEN <<cur>> \o SplitAcc(Tail(s), sep, <<>>)
    ELSE SplitAcc(Tail(s), sep, Append(cur, Head(s)))
Split(s, sep) == SplitAcc(s, sep, <<>>)

\* string comparison by code point (Python's str <)
RECURSIVE StrLess(_, _)
StrLess(s, t) ==
    IF t = <<>> THEN FALSE
    ELSE IF s = <<>> THEN TRUE
    ELSE IF Head(s) = Head(t) THEN StrLess(Tail(s), Tail(t))
    ELSE Ord(Head(s)) < Ord(Head(t))

Range(f) == {f[i] : i \in DOMAIN f}

(***************************************************************************)
(* Configuration (detecterv5.py 17-21, trainerv3.py 18-19)                 *)
(***************************************************************************)
TIME_WINDOW_MINUTES == 10
HISTORY_WINDOWS == 3
\* Probabilities are integers in millionths.
\* MIN_RISK = 0.01
MIN_RISK == 10000
\* the literals 0.5 and 0.25 of the risk-level expression
HighRisk == 500000
MediumRisk == 250000

\* DATETIME_REGEX = r"\d{4}-\d{2}-\d{2}[ _]\d{2}:\d{2}:\d{2}", re.fullmatch
DatetimeDigitPos == {1, 2, 3, 4, 6, 7, 9, 10, 12, 13, 15, 16, 18, 19}
DATETIME_REGEX(c) ==
    /\ Len(c) = 19
    /\ \A i \in DatetimeDigitPos : IsDigit(c[i])
    /\ c[5] = "-" /\ c[8] = "-"
    /\ c[11] \in {" ", "_"}
    /\ c[14] = ":" /\ c[17] = ":"

(***************************************************************************)
(* fix_horizontal_alarm (detecterv5.py 34-44)                              *)
(***************************************************************************)
CanonicalColumns ==
    << <<"s","e","v","e","r","i","t","y">>,
       <<"n","a","m","e">>,
       <<"n","e","_","n","a","m","e">>,
       <<"d","e","v","i","c","e">>,
       <<"m","a","n","a","g","e","_","d","o","m","a","i","n">>,
       <<"d","e","v","i","c","e","_","t","y","p","e">>,
       <<"l","o","c","a","t","i","o","n","_","i","n","f","o">>,
       <<"r","a","i","s","e","d","_","o","n">>,
       <<"c","l","e","a","r","e","d","_","o","n">> >>

\* list[:n]
Prefix(seq, n) == SubSeq(seq, 1, IF n < Len(seq) THEN n ELSE Len(seq))

HeaderIsData(df) == \E i \in 1..Len(df.columns) : DATETIME_REGEX(df.columns[i])

\* Result: [err, df, same].  same = TRUE when the returned frame is the
\* argument object itself (no header matched), FALSE when a new frame was
\* built.  Assigning a column list shorter than the frame's width raises
\* pandas' length-mismatch ValueError.
fix_horizontal_alarm(df) ==
    IF HeaderIsData(df)
    THEN LET values == df.columns
             names  == Prefix(CanonicalColumns, Len(values))
         IN  IF Len(names) # Len(values)
             THEN [err |-> "ValueError:length_mismatch", df |-> df, same |-> FALSE]
             ELSE [err |-> "none",
                   df  |-> [columns |-> names, rows |-> <<values>>],
                   same |-> FALSE]
    ELSE [err |-> "none", df |-> df, same |-> TRUE]

(***************************************************************************)
(* Column normalisation and renaming (detecterv5.py 81-88)                 *)
(***************************************************************************)
NormalizeColumnName(c) == StrReplace(StrLower(StrStrip(c)), " ", "_")
NormalizeColumns(cols) == [i \in 1..Len(cols) |-> NormalizeColumnName(cols[i])]

SiteName == <<"s","i","t","e","_","n","a","m","e">>
NeName == <<"n","e","_","n","a","m","e">>
RenameAliases(cols) == [i \in 1..Len(cols) |-> IF cols[i] = SiteName THEN NeName ELSE cols[i]]

(***************************************************************************)
(* normalize_datetime (detecterv5.py 49-55)                                *)
(***************************************************************************)
datetime_candidates ==
    <<"raised_on", "last_occurred", "occurred", "event_time", "alarm_time", "time">>

\* "for col in df.columns: if col in datetime_candidates": the first column,
\* in table order, whose name is a candidate; 0 when there is none.
DatetimeColumn(cols) ==
    LET cand == {i \in 1..Len(cols) : InSeq(datetime_candidates, Join(cols[i]))}
    IN  IF cand = {} THEN 0 ELSE CHOOSE i \in cand : \A j \in cand : i <= j

\* Invalid timestamp marker (pandas NaT).
NaT == -1

Num2(s, i) == 10 * DigitVal(s[i]) + DigitVal(s[i + 1])

\* pd.to_datetime(text, errors="coerce"), in minutes.  Text of the shape
\* YYYY-MM-DD HH:MM:SS with fields in range parses; anything else the model
\* feeds it (names, free text, the "_"-separated shape) does not and is
\* coerced to NaT.  Months are laid out as 31 consecutive days, which keeps
\* the order of instants and every day a multiple of the window width.
ToDatetime(s) ==
    IF /\ DATETIME_REGEX(s)
       /\ s[11] = " "
       /\ Num2(s, 6) \in 1..12 /\ Num2(s, 9) \in 1..31
       /\ Num2(s, 12) \in 0..23 /\ Num2(s, 15) \in 0..59 /\ Num2(s, 18) \in 0..59
    THEN ((((100 * Num2(s, 1) + Num2(s, 3)) * 12 + (Num2(s, 6) - 1)) * 31
            + (Num2(s, 9) - 1)) * 24 + Num2(s, 12)) * 60 + Num2(s, 15)
    ELSE NaT

\* df[col].astype(str).str.replace("_", " ") then to_datetime (line 53)
ParseRaisedOn(cell) == ToDatetime(StrReplace(cell, "_", " "))

\* Series.dt.floor("10min") (line 109); NaT stays NaT
FloorWindow(t) == IF t = NaT THEN NaT ELSE t - (t % TIME_WINDOW_MINUTES)

(***************************************************************************)
(* Alarm token (detecterv5.py 99-103, trainerv3.py 158-164)                *)
(***************************************************************************)
TokenChars == {Lowers[i] : i \in 1..Len(Lowers)} \cup DigitSet \cup {" "}
TokenChar(c) == c \in TokenChars

\* .str.lower().str.replace(r"[^a-z0-9 ]", "", regex=True).str.replace(" ", "_")
CleanAlarm(name) ==
    Join(StrReplace(SelectSeq(StrLower(name), TokenChar), " ", "_"))

(***************************************************************************)
(* build_location_key (detecterv5.py 60-71, trainerv3.py 170-180)          *)
(***************************************************************************)
Cabinet == <<"c","a","b","i","n","e","t">>
Subrack == <<"s","u","b","r","a","c","k">>
Slot == <<"s","l","o","t">>
Sentinel == <<"?">>

\* The loop over the comma-separated parts: a later matching part overwrites
\* the component set by an earlier one; the if/elif chain gives a part to
\* the first keyword it contains.
RECURSIVE LocationScan(_, _)
LocationScan(parts, key) ==
    IF parts = <<>> THEN key
    ELSE LET part == StrStrip(Head(parts))
             next == IF Contains(part, Cabinet) THEN [key EXCEPT !.cabinet = part]
                     ELSE IF Contains(part, Subrack) THEN [key EXCEPT !.subrack = part]
                     ELSE IF Contains(part, Slot) THEN [key EXCEPT !.slot = part]
                     ELSE key
         IN  LocationScan(Tail(parts), next)

\* positional parsing: the first three parts taken as cabinet, subrack and
\* slot whatever they say
LocationComponents_Positional(text) ==
    LET parts == Split(StrLower(text), ",")
        At(i) == IF i <= Len(parts) THEN StrStrip(parts[i]) ELSE Sentinel
    IN  [cabinet |-> At(1), subrack |-> At(2), slot |-> At(3)]
LocationComponents(text) ==
    LocationScan(Split(StrLower(text), ","),
                 [cabinet |-> Sentinel, subrack |-> Sentinel, slot |-> Sentinel])

\* detecterv5: f"{cabinet}\n{subrack}\n{slot}"
build_location_key(text) ==
    LET k == LocationComponents(text)
    IN  k.cabinet \o <<"\n">> \o k.subrack \o <<"\n">> \o k.slot

\* trainerv3: f"{cabinet}|{subrack}|{slot}"
train_build_location_key(text) ==
    LET k == LocationComponents(text)
    IN  k.cabinet \o <<"|">> \o k.subrack \o <<"|">> \o k.slot

(***************************************************************************)
(* Grouping into time windows and timelines                                *)
(* (detecterv5.py 105-114, trainerv3.py 182-199 and 282-286)               *)
(***************************************************************************)
HasColumn(cols, name) == \E i \in 1..Len(cols) : Join(cols[i]) = name
\* df[name]
ColumnIndex(cols, name) == CHOOSE i \in 1..Len(cols) : Join(cols[i]) = name

\* Order of the time_window group key: ascending, the NaT key (kept only
\* with dropna=False) after every valid window.
WindowKeyLess(a, b) == a # NaT /\ (b = NaT \/ a < b)

\* Order of the (ne_name, location_key, time_window) group keys.
GroupKeyLess(a, b) ==
    \/ StrLess(a[1], b[1])
    \/ a[1] = b[1] /\ StrLess(a[2], b[2])
    \/ a[1] = b[1] /\ a[2] = b[2] /\ WindowKeyLess(a[3], b[3])

RECURSIVE SortGroupKeys(_)
SortGroupKeys(S) ==
    IF S = {} THEN <<>>
    ELSE LET m == CHOOSE x \in S : \A y \in S \ {x} : GroupKeyLess(x, y)
         IN  <<m>> \o SortGroupKeys(S \ {m})

\* df.groupby(["ne_name", "location_key", "time_window"], dropna=...):
\* the groups in sorted key order, each with its rows' alarm tokens in row
\* order.  events is the per-row sequence of [ne, loc, win, alarm].
AlarmsOf(rows) == [j \in 1..Len(rows) |-> rows[j].alarm]
GroupBy(events, dropna) ==
    LET keys == {<<e.ne, e.loc, e.win>> : e \in {x \in Range(events) : ~dropna \/ x.win # NaT}}
        order == SortGroupKeys(keys)
    IN  [i \in 1..Len(order) |->
            [ne |-> order[i][1], loc |-> order[i][2], win |-> order[i][3],
             alarms |-> AlarmsOf(SelectSeq(events, LAMBDA e : <<e.ne, e.loc, e.win>> = order[i]))]]

\* timeline = defaultdict(list); timeline[(ne, loc)].append(...): a dict in
\* insertion order, as a sequence of [key, records].
RECURSIVE BuildTimeline(_, _)
BuildTimeline(groups, tl) ==
    IF groups = <<>> THEN tl
    ELSE LET g == Head(groups)
             k == <<g.ne, g.loc>>
             rec == [win |-> g.win, alarms |-> g.alarms]
             at == {i \in 1..Len(tl) : tl[i].key = k}
         IN  IF at = {}
             THEN BuildTimeline(Tail(groups), Append(tl, [key |-> k, records |-> <<rec>>]))
             ELSE LET i == CHOOSE x \in at : TRUE
                  IN  BuildTimeline(Tail(groups),
                                    [tl EXCEPT ![i].records = Append(@, rec)])

\* Python's < on window keys: every comparison with NaT is False.
PyLess(a, b) == a # NaT /\ b # NaT /\ a < b

\* records.sort(key=lambda x: x[0]): stable insertion sort under PyLess.
RECURSIVE InsertRecord(_, _)
InsertRecord(sorted, r) ==
    IF sorted = <<>> THEN <<r>>
    ELSE IF PyLess(r.win, sorted[Len(sorted)].win)
         THEN Append(InsertRecord(SubSeq(sorted, 1, Len(sorted) - 1), r), sorted[Len(sorted)])
         ELSE Append(sorted, r)
RECURSIVE SortRecords(_)
SortRecords(rs) ==
    IF rs = <<>> THEN <<>>
    ELSE InsertRecord(SortRecords(SubSeq(rs, 1, Len(rs) - 1)), rs[Len(rs)])

RECURSIVE Flatten(_)
Flatten(ss) == IF ss = <<>> THEN <<>> ELSE Head(ss) \o Flatten(Tail(ss))

(***************************************************************************)
(* Fault knowledge base (trainerv3.py 27-103, loaded at detecterv5.py 29)  *)
(***************************************************************************)
FAULT_DATA ==
    "gsm_local_cell_unusable" :> [cause |-> "TRX failure, RF link down, power issue",
        recommendation |-> "Verify RF unit status, reset TRX, check DC input and feeders",
        team |-> "Field"] @@
    "bbu_cpri_interface_error" :> [cause |-> "Fiber link loss, dirty connector, CPRI port failure",
        recommendation |-> "Clean fiber connectors, check SFP power, replace fiber or CPRI port",
        team |-> "Field + NOC"] @@
    "rf_unit_tx_channel_gain_out_of_range" :> [cause |-> "PA degradation, temperature impact, calibration error",
        recommendation |-> "Check RF unit temperature, recalibrate RF path, replace RFU if persistent",
        team |-> "Field"] @@
    "tbc_battery_cabinet_high_temperature" :> [cause |-> "Poor ventilation or fan failure",
        recommendation |-> "Improve ventilation, check fans, reduce load if needed",
        team |-> "Field"] @@
    "cell_capability_degraded" :> [cause |-> "License limit exceeded or RF degradation",
        recommendation |-> "Verify capacity license and RF configuration",
        team |-> "NOC"] @@
    "capacity_license_issue" :> [cause |-> "Configured or data capacity exceeding licensed limit",
        recommendation |-> "Verify license and apply capacity upgrade",
        team |-> "NOC"] @@
    "rf_unit_clock_problem" :> [cause |-> "GNSS sync loss or clock module fault",
        recommendation |-> "Check GNSS lock, inspect clock cable, switch to backup sync",
        team |-> "NOC"] @@
    "ac_surge_protection_fault" :> [cause |-> "Surge event or SPD degradation",
        recommendation |-> "Replace surge protector and inspect grounding",
        team |-> "Field"] @@
    "qos" :> [cause |-> "High VSWR due to feeder or antenna fault",
        recommendation |-> "Inspect feeders, tighten connectors, test antenna VSWR",
        team |-> "Field"] @@
    "battery_discharging" :> [cause |-> "AC failure, rectifier fault, power fluctuation",
        recommendation |-> "Check AC input, rectifiers, breakers, and battery health",
        team |-> "Field"] @@
    "indoor_vent_high_temperature" :> [cause |-> "Fan fault or blocked ventilation",
        recommendation |-> "Replace faulty fans and clear airflow paths",
        team |-> "Field"] @@
    "power_monitoring_failure" :> [cause |-> "Power module and monitoring module communication failure",
        recommendation |-> "Check power monitoring module connections and reboot module",
        team |-> "Field"] @@
    "battery_health_issue" :> [cause |-> "Battery protection triggered or over-discharge",
        recommendation |-> "Perform battery health check and replace battery if required",
        team |-> "Field"] @@
    "no_fault" :> [cause |-> "No abnormal condition detected",
        recommendation |-> "Continue monitoring",
        team |-> "NOC"]

\* FAULT_DATA.get(fault, {"cause": "Unknown", "recommendation": "N/A", "team": "N/A"})
FaultMeta(fault) ==
    IF fault \in DOMAIN FAULT_DATA THEN FAULT_DATA[fault]
    ELSE [cause |-> "Unknown", recommendation |-> "N/A", team |-> "N/A"]

(***************************************************************************)
(* Risk scorer (detecterv5.py 116-152)                                     *)
(***************************************************************************)
\* the check without the history requirement: any non-empty timeline passes
TooFewWindows_AnyHistory(records) == Len(records) < 1
\* "if len(records) < HISTORY_WINDOWS: continue"
TooFewWindows(records) == Len(records) < HISTORY_WINDOWS

\* records[-HISTORY_WINDOWS:] flattened into one token list
Recent(records) ==
    LET from == IF Len(records) > HISTORY_WINDOWS
                THEN Len(records) - HISTORY_WINDOWS + 1 ELSE 1
        last == SubSeq(records, from, Len(records))
    IN  Flatten([i \in 1..Len(last) |-> last[i].alarms])

\* alarm_encoder.transform([recent]): the multi-hot row over the frozen
\* vocabulary, as the set of vocabulary tokens present; others are dropped.
Encode(art, tokens) == Range(tokens) \cap art.vocab

\* the filter with <= for <, which would also drop p = MIN_RISK
BelowMinRisk_Inclusive(p) == p <= MIN_RISK
\* "if p < MIN_RISK: continue"
BelowMinRisk(p) == p < MIN_RISK

\* "HIGH" if p >= 0.5 else ("MEDIUM" if p >= 0.25 else "LOW")
RiskLevel(p) ==
    IF p >= HighRisk THEN "HIGH" ELSE IF p >= MediumRisk THEN "MEDIUM" ELSE "LOW"

\* round(p * 100, 2), in hundredths of a percent (ties to even)
RoundPct(p) ==
    LET q == p \div 100
        r == p % 100
    IN  IF r > 50 \/ (r = 50 /\ q % 2 = 1) THEN q + 1 ELSE q

\* "if fault == 'no_fault': continue"
SkippedLabel(fault) == fault = "no_fault"

\* The loop over fault_encoder.classes_ for one (ne, loc): probas[i][0][1]
\* is art.proba[X][i].
RECURSIVE LabelResults(_, _, _, _)
LabelResults(art, key, X, i) ==
    IF i > Len(art.classes) THEN <<>>
    ELSE LET fault == art.classes[i]
             p == art.proba[X][i]
             meta == FaultMeta(fault)
             rest == LabelResults(art, key, X, i + 1)
         IN  IF SkippedLabel(fault) THEN rest
             ELSE IF BelowMinRisk(p) THEN rest
             ELSE << [Site |-> key[1], Location |-> key[2], Fault |-> fault,
                      Probability |-> RoundPct(p), Risk_Level |-> RiskLevel(p),
                      Possible_Cause |-> meta.cause,
                      Recommendation |-> meta.recommendation,
                      Team |-> meta.team] >> \o rest

\* The loop over timeline.items()
RECURSIVE TimelineResults(_, _)
TimelineResults(art, tl) ==
    IF tl = <<>> THEN <<>>
    ELSE LET records == SortRecords(Head(tl).records)
             rest == TimelineResults(art, Tail(tl))
         IN  IF TooFewWindows(records) THEN rest
             ELSE IF Recent(records) = <<>> THEN rest
             ELSE LabelResults(art, Head(tl).key, Encode(art, Recent(records)), 1) \o rest

(***************************************************************************)
(* predict_future_faults (detecterv5.py 76-154)                            *)
(***************************************************************************)
RaisedOn == <<"r","a","i","s","e","d","_","o","n">>
Required == {"raised_on", "ne_name", "name", "location_info"}

\* Per-row events of the normalised frame: the columns read at lines 99-109.
\* dtcol is the column normalize_datetime parsed into df["raised_on"].
DetectEvents(cols, rows, dtcol) ==
    LET ne_name == ColumnIndex(cols, "ne_name")
        location_info == ColumnIndex(cols, "location_info")
        name == ColumnIndex(cols, "name")
    IN  [r \in 1..Len(rows) |->
            [ne    |-> rows[r][ne_name],
             loc   |-> build_location_key(rows[r][location_info]),
             win   |-> FloorWindow(ParseRaisedOn(rows[r][dtcol])),
             alarm |-> CleanAlarm(rows[r][name])]]

\* The timeline built at lines 111-114 (groupby with dropna=False).
DetectTimeline(cols, rows, dtcol) ==
    BuildTimeline(GroupBy(DetectEvents(cols, rows, dtcol), FALSE), <<>>)

\* What one call leaves behind.
\*   err       "none" or the exception raised
\*   named     the fields the exception message reports as missing
\*   results   the returned list
\*   columns   the column names of the caller's object after the call
\*   frame     the frame fix_horizontal_alarm returned
\*   cols      df.columns after line 88
\*   used      the column normalize_datetime parsed, "" if none
\*   timeline  the dict of line 112 after the loop of line 117 sorted its lists
Outcome(err, named, results, after, frame, cols, used, tl) ==
    [err |-> err, named |-> named, results |-> results, columns |-> after,
     frame |-> frame, cols |-> cols, used |-> used, timeline |-> tl]

SortedTimeline(tl) ==
    [i \in 1..Len(tl) |-> [key |-> tl[i].key, records |-> SortRecords(tl[i].records)]]

\* One call on the table object df0 with the loaded bundle art.
predict_future_faults(df0, art) ==
    LET fx == fix_horizontal_alarm(df0)
    IN  IF fx.err # "none" THEN Outcome(fx.err, {}, <<>>, df0.columns, df0, <<>>, "", <<>>)
        ELSE
        LET cols1 == NormalizeColumns(fx.df.columns)
            \* line 81 assigns to the frame fix_horizontal_alarm returned
            after == IF fx.same THEN cols1 ELSE df0.columns
            cols2 == RenameAliases(cols1)
            dtcol == DatetimeColumn(cols2)
        IN  IF dtcol = 0
            \* "No datetime column found. Available columns: [...]"
            THEN Outcome("KeyError:no_datetime_column", {"timestamp"}, <<>>, after,
                         fx.df, cols2, "", <<>>)
            ELSE
            LET cols3 == IF HasColumn(cols2, "raised_on") THEN cols2
                         ELSE Append(cols2, RaisedOn)
                missing == Required \ {Join(cols3[i]) : i \in 1..Len(cols3)}
                used == Join(cols2[dtcol])
            IN  IF missing # {}
                \* "Missing required columns: {...}"
                THEN Outcome("ValueError:missing_required", missing, <<>>, after,
                             fx.df, cols2, used, <<>>)
                ELSE LET tl == DetectTimeline(cols2, fx.df.rows, dtcol)
                     IN  Outcome("none", {}, TimelineResults(art, tl), after,
                                 fx.df, cols2, used, SortedTimeline(tl))

(***************************************************************************)
(* Weak labeler (trainerv3.py 205-276)                                     *)
(***************************************************************************)
LabelRules ==
    << [triggers |-> {"rf_unit_dc_input_power_failure", "rf_unit_runtime_topology_error",
                      "cell_unavailable", "rf_unit_maintenance_link_failure",
                      "remote_maintenance_link_failure"},
        label |-> "gsm_local_cell_unusable"],
       [triggers |-> {"bbu_cpri_interface_error"}, label |-> "bbu_cpri_interface_error"],
       [triggers |-> {"rf_unit_tx_channel_gain_out_of_range"},
        label |-> "rf_unit_tx_channel_gain_out_of_range"],
       [triggers |-> {"tbc_battery_cabinet_high_temperature"},
        label |-> "tbc_battery_cabinet_high_temperature"],
       [triggers |-> {"cell_capability_degraded"}, label |-> "cell_capability_degraded"],
       [triggers |-> {"configured_capacity_limit_exceeding_licensed_limit",
                      "data_configuration_exceeding_licensed_limit"},
        label |-> "capacity_license_issue"],
       [triggers |-> {"rf_unit_clock_problem"}, label |-> "rf_unit_clock_problem"],
       [triggers |-> {"ac_surge_protector_fault"}, label |-> "ac_surge_protection_fault"],
       [triggers |-> {"rf_unit_vswr_threshold_crossed"}, label |-> "qos"],
       [triggers |-> {"mains_input_out_of_range", "mains_failure", "ac_failure",
                      "phase_l1_under_voltage", "phase_l2_under_voltage",
                      "phase_l3_under_voltage"},
        label |-> "battery_discharging"],
       [triggers |-> {"fan_1_fault", "fan_2_fault", "fan_3_fault", "fan_4_fault"},
        label |-> "indoor_vent_high_temperature"],
       [triggers |-> {"power_module_and_monitoring_module_communication_failure"},
        label |-> "power_monitoring_failure"],
       [triggers |-> {"lithium_battery_protection", "overdischarge"},
        label |-> "battery_health_issue"] >>

\* "if {...} & s: faults.append(label)", rule after rule
RECURSIVE FiredLabels(_, _)
FiredLabels(rules, s) ==
    IF rules = <<>> THEN <<>>
    ELSE (IF Head(rules).triggers \cap s # {} THEN <<Head(rules).label>> ELSE <<>>)
         \o FiredLabels(Tail(rules), s)

\* the rules as an if/elif chain, where only the first rule that fires
\* would contribute its label
WeakLabels_FirstRuleOnly(alarms) ==
    LET faults == FiredLabels(LabelRules, Range(alarms))
    IN  IF faults = <<>> THEN <<"no_fault">> ELSE <<Head(faults)>>
\* the body of "for alarms in alarm_groups"
WeakLabels(alarms) ==
    LET faults == FiredLabels(LabelRules, Range(alarms))
    IN  IF faults = <<>> THEN <<"no_fault">> ELSE faults

(***************************************************************************)
(* Trainer (trainerv3.py 109-309)                                          *)
(***************************************************************************)
LastOccurred == <<"l","a","s","t","_","o","c","c","u","r","r","e","d">>
\* df.rename(columns={"site_name": "ne_name", "last_occurred": "raised_on"})
TrainRenameAliases(cols) ==
    [i \in 1..Len(cols) |->
        IF cols[i] = SiteName THEN NeName
        ELSE IF cols[i] = LastOccurred THEN RaisedOn ELSE cols[i]]

\* Rows of the loaded frame (lines 140, 158-188); the trainer parses
\* raised_on as it stands, without replacing "_".
TrainEvents(cols, rows) ==
    LET ne_name == ColumnIndex(cols, "ne_name")
        location_info == ColumnIndex(cols, "location_info")
        raised_on == ColumnIndex(cols, "raised_on")
        name == ColumnIndex(cols, "name")
    IN  [r \in 1..Len(rows) |->
            [ne    |-> rows[r][ne_name],
             loc   |-> train_build_location_key(rows[r][location_info]),
             win   |-> FloorWindow(ToDatetime(rows[r][raised_on])),
             alarm |-> CleanAlarm(rows[r][name])]]

\* alarm_groups / alarm_meta (lines 194-199): groupby with the default
\* dropna=True, so rows whose key holds NaT form no group.
TrainGroups(cols, rows) == GroupBy(TrainEvents(cols, rows), TRUE)

\* timeline[(ne, loc)].append((win, alarms, faults)) (lines 282-286)
RECURSIVE TrainTimeline(_, _)
TrainTimeline(groups, tl) ==
    IF groups = <<>> THEN tl
    ELSE LET g == Head(groups)
             k == <<g.ne, g.loc>>
             rec == [win |-> g.win, alarms |-> g.alarms, faults |-> WeakLabels(g.alarms)]
             at == {i \in 1..Len(tl) : tl[i].key = k}
         IN  IF at = {}
             THEN TrainTimeline(Tail(groups), Append(tl, [key |-> k, records |-> <<rec>>]))
             ELSE LET i == CHOOSE x \in at : TRUE
                  IN  TrainTimeline(Tail(groups),
                                    [tl EXCEPT ![i].records = Append(@, rec)])

\* first index of "for i in range(HISTORY_WINDOWS, len(records))", 1-based
FirstTarget == HISTORY_WINDOWS + 1

\* the history shifted by one window, range(i - HISTORY_WINDOWS + 1, i + 1),
\* which would leak the target window into its own history
Past_ShiftedByOne(records, i) ==
    Flatten([j \in 1..HISTORY_WINDOWS |-> records[i - HISTORY_WINDOWS + j].alarms])
\* past: records[j][1] for j in range(i - HISTORY_WINDOWS, i), 1-based i
Past(records, i) ==
    Flatten([j \in 1..HISTORY_WINDOWS |-> records[i - HISTORY_WINDOWS + j - 1].alarms])

\* the examples of one timeline entry, as [key, target, X, y]
ExamplesOf(key, records) ==
    [n \in 1..(IF Len(records) >= FirstTarget THEN Len(records) - FirstTarget + 1 ELSE 0) |->
        [key |-> key, target |-> FirstTarget + n - 1,
         X |-> Past(records, FirstTarget + n - 1),
         y |-> records[FirstTarget + n - 1].faults]]

\* "for records in timeline.values()" (lines 290-299)
RECURSIVE TemporalDataset(_)
TemporalDataset(tl) ==
    IF tl = <<>> THEN <<>>
    ELSE ExamplesOf(Head(tl).key, SortRecords(Head(tl).records))
         \o TemporalDataset(Tail(tl))

\* The training script on one input file, up to the temporal dataset.
\*   err       "none" or the exception that ends the script
\*   events    the rows of df with the columns added at lines 158-188
\*   timeline  the dict of line 282, records sorted as at line 291
\*   examples  X_seq / y_seq, zipped, with the entry and index they came from
train(df0) ==
    LET cols == TrainRenameAliases(NormalizeColumns(df0.columns))
        have == {Join(cols[i]) : i \in 1..Len(cols)}
    IN  IF ~(Required \subseteq have)
        THEN [err |-> "RuntimeError:no_valid_alarm_files", events |-> <<>>,
              timeline |-> <<>>, examples |-> <<>>]
        ELSE LET tl0 == TrainTimeline(TrainGroups(cols, df0.rows), <<>>)
             IN  [err |-> "none", events |-> TrainEvents(cols, df0.rows),
                  timeline |-> SortedTimeline(tl0), examples |-> TemporalDataset(tl0)]

(***************************************************************************)
(* Dashboard action centre (dashboardv2.py 37-88, 113-115, 218-267)        *)
(***************************************************************************)
TEAM_RECIPIENTS ==
    [noc |-> {"sahansa985@gmail.com"}, power |-> {"shandinu98@gmail.com"},
     field |-> {"sahansa@mobitel.lk"}]

\* recipients_for_team, as the set that sorted() is applied to
recipients_for_team(team) ==
    LET t == StrLower(team)
        rcpts == (IF Contains(t, <<"n","o","c">>) THEN TEAM_RECIPIENTS.noc ELSE {})
                 \cup (IF Contains(t, <<"p","o","w","e","r">>) THEN TEAM_RECIPIENTS.power ELSE {})
                 \cup (IF Contains(t, <<"f","i","e","l","d">>) THEN TEAM_RECIPIENTS.field ELSE {})
    IN  IF rcpts = {} THEN TEAM_RECIPIENTS.noc ELSE rcpts

\* A shown result set is a sequence of rows [id, Team]; id stands for the
\* row's other columns (the text grp.to_csv renders).
TeamsOf(v) == {v[i].Team : i \in 1..Len(v)}

RECURSIVE SortTeams(_)
SortTeams(S) ==
    IF S = {} THEN <<>>
    ELSE LET m == CHOOSE x \in S : \A y \in S \ {x} : StrLess(x, y)
         IN  <<m>> \o SortTeams(S \ {m})

\* view.groupby("Team"): the teams in sorted order, each with its rows
TeamGroup(v, team) == SelectSeq(v, LAMBDA r : r.Team = team)

\* hashlib.sha256((team + grp.to_csv(index=False)).encode()).hexdigest():
\* a digest of the team and the group's content, taken as collision free.
Signature(team, grp) == <<"sha256", team, [i \in 1..Len(grp) |-> grp[i].id]>>

\* "if st.session_state.sent_signatures.get(team) == sig"
AlreadySent(cache, team, sig) == team \in DOMAIN cache /\ cache[team] = sig

\* The loop "for team, grp in view.groupby('Team')" of the button handler
\* (lines 224-235) and of auto-send (lines 258-266).  ok[team] is what
\* send_html_email returns for that team's message.  state = [cache, sent].
RECURSIVE SendPerTeam(_, _, _, _)
SendPerTeam(teams, v, ok, state) ==
    IF teams = <<>> THEN state
    ELSE LET team == Head(teams)
             grp == TeamGroup(v, team)
             sig == Signature(team, grp)
             next == IF AlreadySent(state.cache, team, sig) THEN state
                     ELSE IF ok[team]
                          THEN [cache |-> [t \in DOMAIN state.cache \cup {team} |->
                                              IF t = team THEN sig ELSE state.cache[t]],
                                sent  |-> Append(state.sent,
                                            [kind |-> "team", team |-> team,
                                             to |-> recipients_for_team(team),
                                             content |-> [i \in 1..Len(grp) |-> grp[i].id]])]
                          ELSE state
         IN  SendPerTeam(Tail(teams), v, ok, next)

\* to_all of the ungrouped branch (lines 237-240)
AllRecipients(v) == UNION {recipients_for_team(t) : t \in TeamsOf(v)}

(***************************************************************************)
(* Inputs of the model                                                     *)
(***************************************************************************)
\* Bounds
MaxRows == 4
MaxCalls == 2
MaxHeaderValues == 10
MaxSends == 3

\* Sample cell texts
NE1 == <<"N","E","1">>
LocA == <<"C","a","b","i","n","e","t"," ","1",","," ","S","l","o","t"," ","3">>
LocB == <<"s","l","o","t"," ","4">>
AcFailure == <<"A","C"," ","F","a","i","l","u","r","e">>
Overdischarge == <<"O","v","e","r","d","i","s","c","h","a","r","g","e","!">>
DoorOpen == <<"D","o","o","r"," ","O","p","e","n">>
Critical == <<"C","R","I","T","I","C","A","L">>
BadStamp == <<"?">>
SampleNames == <<AcFailure, Overdischarge, DoorOpen>>

D2(n) == <<DigitChars[(n \div 10) + 1], DigitChars[(n % 10) + 1]>>
\* the text of a timestamp on 2024-01-01, minute of the day m, separator sep
Stamp(m, sep) ==
    <<"2","0","2","4","-","0","1","-","0","1">> \o <<sep>> \o D2(m \div 60) \o <<":">> \o D2(m % 60)
    \o <<":", "0", "0">>

\* the alarm name of row i: one name throughout, one name after a different
\* first row, or the three in rotation
NameOf(names, i, where) ==
    IF names = "ac" THEN AcFailure
    ELSE IF names = "lead" THEN (IF i = 1 THEN Overdischarge ELSE AcFailure)
    ELSE IF names = "od" THEN Overdischarge
    ELSE IF names = "door" THEN DoorOpen
    ELSE SampleNames[((i + where) % 3) + 1]

\* Row i of a batch.  when: "new" opens window i, "same" falls into window
\* i-1, "bad" carries an unparseable timestamp.  where: 1 or 2, the location.
RowData(i, when, where, sep, names) ==
    [ts   |-> IF when = "new" THEN Stamp(600 + 10 * i + 1, sep)
              ELSE IF when = "same" THEN Stamp(600 + 10 * (i - 1) + 7, sep)
              ELSE BadStamp,
     alt  |-> Stamp(30, " "),
     ne   |-> NE1,
     name |-> NameOf(names, i, where),
     loc  |-> IF where = 1 THEN LocA ELSE LocB,
     fill |-> Critical]

Whens == {"new", "same", "bad"}
\* which rows lie in location 2: none, the first, the even ones
Where(pattern, i) ==
    IF \/ pattern = "first" /\ i = 1
       \/ pattern = "even" /\ i % 2 = 0
    THEN 2 ELSE 1
\* the mixes of locations and alarm names a batch is built with
Mixes ==
    {<<"none", "rotate">>, <<"first", "rotate">>, <<"even", "rotate">>,
     <<"none", "door">>, <<"none", "ac">>, <<"first", "od">>, <<"none", "lead">>}

\* A layout is a sequence of [hdr, role]: the header text of a column and
\* the field of RowData its cells hold.
Table(layout, data) ==
    [columns |-> [i \in 1..Len(layout) |-> layout[i].hdr],
     rows    |-> [r \in 1..Len(data) |-> [i \in 1..Len(layout) |-> data[r][layout[i].role]]]]

RegularLayout ==
    << [hdr |-> <<"r","a","i","s","e","d","_","o","n">>, role |-> "ts"],
       [hdr |-> <<"n","e","_","n","a","m","e">>, role |-> "ne"],
       [hdr |-> <<"n","a","m","e">>, role |-> "name"],
       [hdr |-> <<"l","o","c","a","t","i","o","n","_","i","n","f","o">>, role |-> "loc"] >>

\* headers that need stripping, lower-casing, underscores and the alias
MessyLayout ==
    << [hdr |-> <<" ","R","a","i","s","e","d"," ","O","n">>, role |-> "ts"],
       [hdr |-> <<"S","i","t","e"," ","N","a","m","e">>, role |-> "ne"],
       [hdr |-> <<"N","A","M","E">>, role |-> "name"],
       [hdr |-> <<"L","o","c","a","t","i","o","n"," ","I","n","f","o"," ">>, role |-> "loc"] >>

Keep(layout, K) == SelectSeq(layout, LAMBDA c : c.role \in K)

\* every subset of the four logical columns present
SchemaLayouts == {Keep(MessyLayout, K) : K \in SUBSET {"ts", "ne", "name", "loc"}}

\* two and three candidate timestamp columns, in different table orders
TimeFirst == <<[hdr |-> <<"T","i","m","e">>, role |-> "alt"]>>
OccurredCol == <<[hdr |-> <<"l","a","s","t","_","o","c","c","u","r","r","e","d">>, role |-> "alt"]>>
TwoStampLayouts ==
    {TimeFirst \o RegularLayout, RegularLayout \o TimeFirst,
     OccurredCol \o Keep(RegularLayout, {"ne", "name", "loc"}) \o TimeFirst
        \o Keep(RegularLayout, {"ts"}),
     Keep(RegularLayout, {"ne", "name", "loc"}) \o OccurredCol}

\* a regular table with one more column whose header is a padded timestamp
PaddedStampLayouts ==
    {RegularLayout \o <<[hdr |-> <<" ">> \o Stamp(600, sep) \o pad, role |-> "fill"]>> :
        sep \in {" ", "_"}, pad \in {<<>>, <<" ">>}}

\* four rows: three windows of location 1 ("_" in the second), one bad stamp
FixedRows ==
    << RowData(1, "new", 1, " ", "rotate"), RowData(2, "new", 1, "_", "rotate"),
       RowData(3, "new", 1, " ", "rotate"), RowData(4, "bad", 1, " ", "rotate") >>

\* six rows, six windows of location 1, the first with a name of its own
LongRows == [i \in 1..6 |-> RowData(i, "new", 1, " ", "lead")]

\* every choice of "when" for up to MaxRows rows, under each mix
FreeBatches ==
    UNION {{Table(RegularLayout,
                  [i \in 1..n |-> RowData(i, f[i], Where(m[1], i), " ", m[2])]) :
               f \in [1..n -> Whens], m \in Mixes} : n \in 0..MaxRows}

FixedBatches ==
    {Table(l, FixedRows) : l \in SchemaLayouts \cup TwoStampLayouts \cup PaddedStampLayouts}
    \cup {Table(RegularLayout, LongRows)}

\* One alarm record whose values came in as the header row.
CanonicalRecord ==
    <<Critical, AcFailure, NE1, <<"B","T","S">>, <<"R","A","N">>, <<"B","T","S","3","9","0","0">>, LocA,
      Stamp(611, " "), Stamp(631, "_")>>
HeaderValue(first, i) ==
    LET rec == first \o CanonicalRecord
    IN  IF i <= Len(rec) THEN rec[i] ELSE <<"x">> \o D2(i)

\* header-as-data tables of every width: the record in canonical order and
\* the record with its timestamp in front; no data rows or one
HeaderBatches ==
    {[columns |-> [i \in 1..n |-> HeaderValue(first, i)],
      rows |-> IF one THEN <<[i \in 1..n |-> HeaderValue(first, i)]>> ELSE <<>>] :
        n \in 1..MaxHeaderValues, first \in {<<>>, <<Stamp(601, " ")>>}, one \in BOOLEAN}

Batches == FreeBatches \cup FixedBatches \cup HeaderBatches

\* Loaded bundles: a two-token vocabulary, the sorted classes_ of the fault
\* encoder, and predict_proba as a table from the encoded row to the
\* probability of each class.
Vocab == {"ac_failure", "overdischarge"}
Classes == <<"battery_discharging", "battery_health_issue", "no_fault">>
ProbaA ==
    [X \in SUBSET Vocab |->
        IF X = {} THEN <<9996, 0, 990000>>
        ELSE IF X = {"ac_failure"} THEN <<499996, 9999, 500000>>
        ELSE IF X = {"overdischarge"} THEN <<249996, 500000, 20000>>
        ELSE <<250000, 999999, 0>>]
ProbaB ==
    [X \in SUBSET Vocab |->
        IF X = {} THEN <<10000, 9999, 1000000>>
        ELSE IF X = {"ac_failure"} THEN <<500000, 249999, 0>>
        ELSE IF X = {"overdischarge"} THEN <<0, 499999, 730000>>
        ELSE <<874949, 10000, 4>>]
Bundles ==
    {[vocab |-> Vocab, classes |-> Classes, proba |-> ProbaA],
     [vocab |-> Vocab, classes |-> Classes, proba |-> ProbaB]}

\* Result rows the dashboard can show: [id, Team]
TeamField == <<"F","i","e","l","d">>
TeamBoth == <<"F","i","e","l","d"," ","+"," ","N","O","C">>
DashRows ==
    << [id |-> 1, Team |-> TeamField], [id |-> 2, Team |-> TeamField],
       [id |-> 3, Team |-> TeamBoth] >>
Views == {SelectSeq(DashRows, LAMBDA r : r.id \in K) : K \in SUBSET {1, 2, 3}}

(***************************************************************************)
(* State machine: the prediction engine and the training script            *)
(***************************************************************************)
NotTrained ==
    [done |-> FALSE, err |-> "none", events |-> <<>>, timeline |-> <<>>, examples |-> <<>>]
NoKeys == [detect_done |-> FALSE, detect |-> <<>>, train_done |-> FALSE, train |-> <<>>]
\* the labeler and the location-key functions not exercised on their own
UnitsIdle ==
    /\ alarm_group = <<>>
    /\ fault_labels = <<>>
    /\ descriptor = <<>>
    /\ location_keys = NoKeys

Init ==
    /\ raw_df \in Batches
    /\ train_in = raw_df
    /\ artifacts \in Bundles
    /\ calls = <<>>
    /\ train_out = NotTrained
    /\ view = <<>>
    /\ sent_signatures = <<>>
    /\ outbox = <<>>
    /\ UnitsIdle

\* results = predict_future_faults(raw_df) on the caller's table object
Predict ==
    /\ Len(calls) < MaxCalls
    /\ LET out == predict_future_faults(raw_df, artifacts)
       IN  /\ calls' = Append(calls, [input |-> raw_df] @@ out)
           /\ raw_df' = [raw_df EXCEPT !.columns = out.columns]
    /\ UNCHANGED <<artifacts, train_in, train_out, view, sent_signatures, outbox, unitVars>>

\* one run of the training script over the file train_in
Train ==
    /\ ~train_out.done
    /\ LET out == train(train_in)
       IN  train_out' = [done |-> TRUE] @@ out
    /\ UNCHANGED <<raw_df, artifacts, train_in, calls, view, sent_signatures, outbox, unitVars>>

Next == Predict \/ Train

Spec == Init /\ [][Next]_vars

(***************************************************************************)
(* State machine: one dashboard session                                    *)
(***************************************************************************)
NoTable == [columns |-> <<>>, rows |-> <<>>]

InitDash ==
    /\ raw_df = NoTable
    /\ train_in = NoTable
    /\ artifacts = [vocab |-> Vocab, classes |-> Classes, proba |-> ProbaA]
    /\ calls = <<>>
    /\ train_out = NotTrained
    /\ view \in Views
    /\ sent_signatures = <<>>
    /\ outbox = <<>>
    /\ UnitsIdle

Ids(v) == [i \in 1..Len(v) |-> v[i].id]

\* a rerun of the script with another upload or other filters: a new view
ShowResults ==
    /\ \E v \in Views : v # view /\ view' = v
    /\ UNCHANGED <<raw_df, artifacts, calls, train_in, train_out, sent_signatures, outbox, unitVars>>

\* "Send Emails" pressed with group_by_team on (lines 221-235)
SendGrouped ==
    /\ \E ok \in [TeamsOf(view) -> BOOLEAN] :
          LET st == SendPerTeam(SortTeams(TeamsOf(view)), view, ok,
                                [cache |-> sent_signatures, sent |-> outbox])
          IN  /\ Len(st.sent) <= MaxSends
              /\ sent_signatures' = st.cache
              /\ outbox' = st.sent
    /\ UNCHANGED <<raw_df, artifacts, calls, train_in, train_out, view, unitVars>>

\* "Send Emails" pressed with group_by_team off (lines 236-244): one message
\* to all recipients, no signature looked up or stored; with no recipient
\* the transport refuses the message
SendUngrouped ==
    /\ Len(outbox) < MaxSends
    /\ \E ok \in BOOLEAN :
          /\ ok => AllRecipients(view) # {}
          /\ outbox' = IF ok
                       THEN Append(outbox, [kind |-> "all", team |-> <<>>,
                                            to |-> AllRecipients(view),
                                            content |-> Ids(view)])
                       ELSE outbox
    /\ UNCHANGED <<raw_df, artifacts, calls, train_in, train_out, view, sent_signatures, unitVars>>

\* the auto_send block at the end of a script run (lines 256-267)
AutoSend ==
    /\ \E ok \in [TeamsOf(view) -> BOOLEAN] :
          LET st == SendPerTeam(SortTeams(TeamsOf(view)), view, ok,
                                [cache |-> sent_signatures, sent |-> outbox])
          IN  /\ Len(st.sent) <= MaxSends
              /\ sent_signatures' = st.cache
              /\ outbox' = st.sent
    /\ UNCHANGED <<raw_df, artifacts, calls, train_in, train_out, view, unitVars>>

NextDash == ShowResults \/ SendGrouped \/ SendUngrouped \/ AutoSend

SpecDash == InitDash /\ [][NextDash]_vars

(***************************************************************************)
(* State machine: the weak labeler on one window (trainerv3.py 205-276)    *)
(***************************************************************************)
MaxGroup == 2

\* every trigger token of the rule table, and two tokens no rule mentions
TriggerTokens == UNION {LabelRules[k].triggers : k \in 1..Len(LabelRules)}
OtherTokens == {"door_open", "board_startup"}
\* the alarm_clean lists of a window: up to MaxGroup tokens, repeats allowed
AlarmGroups ==
    UNION {{[i \in 1..n |-> f[i]] : f \in [1..n -> TriggerTokens \cup OtherTokens]} :
              n \in 0..MaxGroup}

EngineIdle ==
    /\ raw_df = NoTable
    /\ train_in = NoTable
    /\ artifacts = [vocab |-> Vocab, classes |-> Classes, proba |-> ProbaA]
    /\ calls = <<>>
    /\ train_out = NotTrained
    /\ view = <<>>
    /\ sent_signatures = <<>>
    /\ outbox = <<>>

InitLabel ==
    /\ EngineIdle
    /\ alarm_group \in AlarmGroups
    /\ fault_labels = <<>>
    /\ descriptor = <<>>
    /\ location_keys = NoKeys

\* one pass of "for alarms in alarm_groups": fault_labels.append(faults)
Label ==
    /\ fault_labels = <<>>
    /\ fault_labels' = WeakLabels(alarm_group)
    /\ UNCHANGED <<raw_df, artifacts, calls, train_in, train_out, view, sent_signatures,
                   outbox, alarm_group, descriptor, location_keys>>

NextLabel == Label

SpecLabel == InitLabel /\ [][NextLabel]_vars

(***************************************************************************)
(* State machine: build_location_key on one location_info cell             *)
(* (detecterv5.py 60-71, trainerv3.py 170-180)                             *)
(***************************************************************************)
MaxSegments == 3

\* segments a location_info cell is made of: the three components in mixed
\* case and padding, a second cabinet and a second slot, a segment with no
\* keyword and one with two
Segments ==
    { <<"C","a","b","i","n","e","t"," ","1">>,
      <<" ","s","u","b","r","a","c","k"," ","2">>,
      <<"S","L","O","T"," ","3"," ">>,
      <<"c","a","b","i","n","e","t"," ","9">>,
      <<"S","l","o","t"," ","4">>,
      <<"r","a","c","k">>,
      <<"s","l","o","t"," ","o","f"," ","c","a","b","i","n","e","t"," ","5">> }
Descriptors ==
    UNION {{[i \in 1..n |-> f[i]] : f \in [1..n -> Segments]} : n \in 0..MaxSegments}

\* ",".join(segments): the text of the cell
RECURSIVE JoinSegments(_)
JoinSegments(segs) ==
    IF segs = <<>> THEN <<>>
    ELSE IF Len(segs) = 1 THEN segs[1]
    ELSE segs[1] \o <<",">> \o JoinSegments(Tail(segs))

InitLoc ==
    /\ EngineIdle
    /\ alarm_group = <<>>
    /\ fault_labels = <<>>
    /\ descriptor \in Descriptors
    /\ location_keys = NoKeys

\* detecterv5: df["location_info"].apply(build_location_key)
DetectKey ==
    /\ ~location_keys.detect_done
    /\ location_keys' = [location_keys EXCEPT
                            !.detect_done = TRUE,
                            !.detect = build_location_key(JoinSegments(descriptor))]
    /\ UNCHANGED <<raw_df, artifacts, calls, train_in, train_out, view, sent_signatures,
                   outbox, alarm_group, fault_labels, descriptor>>

\* trainerv3: df["location_info"].apply(build_location_key)
TrainKey ==
    /\ ~location_keys.train_done
    /\ location_keys' = [location_keys EXCEPT
                            !.train_done = TRUE,
                            !.train = train_build_location_key(JoinSegments(descriptor))]
    /\ UNCHANGED <<raw_df, artifacts, calls, train_in, train_out, view, sent_signatures,
                   outbox, alarm_group, fault_labels, descriptor>>

NextLoc == DetectKey \/ TrainKey

SpecLoc == InitLoc /\ [][NextLoc]_vars

(***************************************************************************)
(* Properties                                                              *)
(***************************************************************************)
Successful(c) == c.err = "none"
ValidWindows(records) == {records[j].win : j \in 1..Len(records)} \ {NaT}
ResultsFor(c, key, fault) ==
    {j \in 1..Len(c.results) :
        /\ c.results[j].Site = key[1]
        /\ c.results[j].Location = key[2]
        /\ c.results[j].Fault = fault}
FaultLabels == {Classes[i] : i \in 1..Len(Classes)}
\* the probability a record carries, 'Probability (%)' / 100, in millionths
Carried(r) == r.Probability * 100

\* C1: in every emitted record the risk tier follows the probability the
\* record carries: >= 0.5 iff HIGH, in [0.25, 0.5) iff MEDIUM, < 0.25 iff LOW.
C1_TierFollowsCarriedProbability ==
    \A n \in 1..Len(calls) : \A j \in 1..Len(calls[n].results) :
        LET r == calls[n].results[j]
        IN  /\ (Carried(r) >= HighRisk) <=> (r.Risk_Level = "HIGH")
            /\ (Carried(r) >= MediumRisk /\ Carried(r) < HighRisk) <=> (r.Risk_Level = "MEDIUM")
            /\ (Carried(r) < MediumRisk) <=> (r.Risk_Level = "LOW")

TrainPairs == {<<train_out.events[r].ne, train_out.events[r].loc>> : r \in 1..Len(train_out.events)}
TrainWindows(pair) ==
    {train_out.events[r].win :
        r \in {x \in 1..Len(train_out.events) :
                 <<train_out.events[x].ne, train_out.events[x].loc>> = pair}} \ {NaT}
ExamplesFor(pair) == SelectSeq(train_out.examples, LAMBDA x : x.key = pair)

\* C2: a (device, LocationKey) pair with fewer than HISTORY_WINDOWS populated
\* time windows gets no prediction record from predict_future_faults and no
\* training example from the trainer.
C2_NoOutputBelowHistoryWindows ==
    /\ \A n \in 1..Len(calls) : \A e \in 1..Len(calls[n].timeline) :
          LET entry == calls[n].timeline[e]
          IN  Cardinality(ValidWindows(entry.records)) < HISTORY_WINDOWS
              => \A f \in FaultLabels : ResultsFor(calls[n], entry.key, f) = {}
    /\ \A pair \in TrainPairs :
          Cardinality(TrainWindows(pair)) < HISTORY_WINDOWS => ExamplesFor(pair) = <<>>

\* the classifier's probability of class i for the history of a timeline entry
ScoreOf(entry, i) == artifacts.proba[Encode(artifacts, Recent(entry.records))][i]

C4_NoDigestSentTwice ==
    \A i, j \in 1..Len(outbox) :
        (i < j /\ outbox[i].kind = "team" /\ outbox[j].kind = "team")
        => ~(outbox[i].team = outbox[j].team /\ outbox[i].content = outbox[j].content)

\* C5: a row whose timestamp does not parse is left out of the aggregation:
\* no timeline of predict_future_faults or of the trainer holds a window
\* keyed by the invalid timestamp (so such rows add no window to their pair).
C5_UnparsedRowsExcluded ==
    /\ \A n \in 1..Len(calls) : \A e \in 1..Len(calls[n].timeline) :
          \A j \in 1..Len(calls[n].timeline[e].records) :
              calls[n].timeline[e].records[j].win # NaT
    /\ \A e \in 1..Len(train_out.timeline) :
          \A j \in 1..Len(train_out.timeline[e].records) :
              train_out.timeline[e].records[j].win # NaT

\* the logical columns a normalised, renamed column list lacks
MissingFields(cols) ==
    LET have == {Join(cols[i]) : i \in 1..Len(cols)}
    IN  (IF have \cap Range(datetime_candidates) = {} THEN {"timestamp"} ELSE {})
        \cup ({"ne_name", "name", "location_info"} \ have)

\* C6: when a logical column is missing after normalisation and renaming,
\* the call fails, returns no results, and its error names every missing
\* field.
C6_SchemaErrorNamesEveryMissingField ==
    \A n \in 1..Len(calls) :
        (calls[n].err # "ValueError:length_mismatch" /\ MissingFields(calls[n].cols) # {})
        => /\ ~Successful(calls[n])
           /\ calls[n].results = <<>>
           /\ MissingFields(calls[n].cols) \subseteq calls[n].named

\* C7: the column used as the event timestamp is, among the candidate
\* columns present, the one that comes first in the priority list.
C7_TimestampColumnByPriority ==
    \A n \in 1..Len(calls) :
        calls[n].used # ""
        => LET have == {Join(calls[n].cols[i]) : i \in 1..Len(calls[n].cols)}
               first == CHOOSE k \in 1..Len(datetime_candidates) :
                           /\ datetime_candidates[k] \in have
                           /\ \A m \in 1..(k - 1) : datetime_candidates[m] \notin have
           IN  calls[n].used = datetime_candidates[first]

\* C8: a second call on the same table object with the same bundle returns
\* the list the first call returned, element by element.
C8_SecondRunIdentical ==
    \A n \in 1..(Len(calls) - 1) :
        Successful(calls[n])
        => Successful(calls[n + 1]) /\ calls[n + 1].results = calls[n].results

\* C9: a table with a header matching the timestamp pattern becomes a
\* one-row table of the header values under the canonical names truncated to
\* their number, for every number of header values; any other table is
\* returned as it is.
C9_HeaderRowBecomesDataRow ==
    \A n \in 1..Len(calls) :
        LET in == calls[n].input
            width == Len(in.columns)
        IN  IF HeaderIsData(in)
            THEN /\ calls[n].err # "ValueError:length_mismatch"
                 /\ calls[n].frame = [columns |-> Prefix(CanonicalColumns, width),
                                      rows |-> <<in.columns>>]
            ELSE calls[n].frame = in

RECURSIVE SortInts(_)
SortInts(S) ==
    IF S = {} THEN <<>>
    ELSE LET m == CHOOSE x \in S : \A y \in S : x <= y
         IN  <<m>> \o SortInts(S \ {m})
TrainTokens(pair, w) ==
    {train_out.events[r].alarm :
        r \in {x \in 1..Len(train_out.events) :
                 /\ <<train_out.events[x].ne, train_out.events[x].loc>> = pair
                 /\ train_out.events[x].win = w}}
LabelSet(tokens) ==
    LET fired == {LabelRules[k].label :
                    k \in {x \in 1..Len(LabelRules) : LabelRules[x].triggers \cap tokens # {}}}
    IN  IF fired = {} THEN {"no_fault"} ELSE fired

\* C10: a timeline with n populated windows yields max(0, n - HISTORY_WINDOWS)
\* examples, one per window index i above HISTORY_WINDOWS in ascending order;
\* its history holds exactly the tokens of the HISTORY_WINDOWS windows before
\* window i and its labels are the weak labels of window i's own alarms.
C10_TemporalDataset ==
    \A pair \in TrainPairs :
        LET wins == SortInts(TrainWindows(pair))
            ex == ExamplesFor(pair)
        IN  /\ Len(ex) = (IF Len(wins) > HISTORY_WINDOWS THEN Len(wins) - HISTORY_WINDOWS ELSE 0)
            /\ \A m \in 1..Len(ex) :
                  LET i == HISTORY_WINDOWS + m
                  IN  /\ ex[m].target = i
                      /\ Range(ex[m].X) =
                            UNION {TrainTokens(pair, wins[j]) : j \in (i - HISTORY_WINDOWS)..(i - 1)}
                      /\ Range(ex[m].y) = LabelSet(TrainTokens(pair, wins[i]))

\* a trained timeline of at least five windows: two examples or more, with
\* different histories because the later one leaves the first window out,
\* and a label other than no_fault
C10_Witness ==
    \E pair \in TrainPairs :
        LET ex == ExamplesFor(pair)
        IN  /\ Len(ex) >= 2
            /\ Range(ex[1].X) # Range(ex[2].X)
            /\ \E m \in 1..Len(ex) : ex[m].y # <<"no_fault">>

Labelled == fault_labels # <<>>
Fires(k) == LabelRules[k].triggers \cap Range(alarm_group) # {}

\* C11: the label set of a window holds a rule's label exactly when the
\* window's tokens intersect that rule's triggers; it is {no_fault} exactly
\* when no rule fires, so no_fault never accompanies another label and the
\* label set is never empty.
C11_LabelsAreTheFiredRules ==
    Labelled =>
        /\ \A k \in 1..Len(LabelRules) :
              (LabelRules[k].label \in Range(fault_labels)) <=> Fires(k)
        /\ (Range(fault_labels) = {"no_fault"}) <=> (\A k \in 1..Len(LabelRules) : ~Fires(k))
        /\ "no_fault" \in Range(fault_labels) => Range(fault_labels) = {"no_fault"}
        /\ Range(fault_labels) \subseteq
              {LabelRules[k].label : k \in 1..Len(LabelRules)} \cup {"no_fault"}

\* a labelled window in which two different rules fired
C11_Witness ==
    /\ Labelled
    /\ \E j, k \in 1..Len(LabelRules) : j # k /\ Fires(j) /\ Fires(k)
    /\ Cardinality(Range(fault_labels)) = 2

Keywords == <<Cabinet, Subrack, Slot>>
UpperOf == [c \in Chars |-> IF InSeq(Lowers, c) THEN Uppers[IndexOf(Lowers, c)] ELSE c]
StrUpper(t) == [i \in 1..Len(t) |-> UpperOf[t[i]]]
\* the segments that hold keyword k, whatever the letter case
Holding(segs, k) == {i \in 1..Len(segs) : Contains(StrLower(segs[i]), Keywords[k])}
\* each keyword in at most one segment and no segment with two keywords
OneSegmentEach(segs) ==
    /\ \A k \in 1..3 : Cardinality(Holding(segs, k)) <= 1
    /\ \A j, k \in 1..3 : j # k => Holding(segs, j) \cap Holding(segs, k) = {}
Perms(n) == {f \in [1..n -> 1..n] : \A i, j \in 1..n : f[i] = f[j] => i = j}
\* letter-case variants of a list of segments
CaseVariants(segs) ==
    { segs,
      [i \in 1..Len(segs) |-> StrLower(segs[i])],
      [i \in 1..Len(segs) |-> StrUpper(segs[i])],
      [i \in 1..Len(segs) |-> IF i % 2 = 1 THEN StrUpper(segs[i]) ELSE StrLower(segs[i])] }
Rearranged(segs) ==
    UNION {CaseVariants([i \in 1..Len(segs) |-> segs[f[i]]]) : f \in Perms(Len(segs))}
Without(segs, i) == [j \in 1..(Len(segs) - 1) |-> IF j < i THEN segs[j] ELSE segs[j + 1]]
ComponentOf(text, k) ==
    LET c == LocationComponents(text)
    IN  IF k = 1 THEN c.cabinet ELSE IF k = 2 THEN c.subrack ELSE c.slot

\* C12: for a descriptor with each keyword in at most one segment and no
\* segment holding two, every permutation and letter-case variant of its
\* segments gives the key the functions returned, in the detector and in the
\* trainer; the descriptor without one of its components gives a key with
\* the sentinel in that component, different from the key of the full one.
C12_KeyByKeywordNotPosition ==
    OneSegmentEach(descriptor) =>
        /\ location_keys.detect_done =>
              /\ \A v \in Rearranged(descriptor) :
                    build_location_key(JoinSegments(v)) = location_keys.detect
              /\ \A k \in 1..3 : \A i \in Holding(descriptor, k) :
                    LET less == JoinSegments(Without(descriptor, i))
                    IN  /\ ComponentOf(less, k) = Sentinel
                        /\ build_location_key(less) # location_keys.detect
        /\ location_keys.train_done =>
              /\ \A v \in Rearranged(descriptor) :
                    train_build_location_key(JoinSegments(v)) = location_keys.train
              /\ \A k \in 1..3 : \A i \in Holding(descriptor, k) :
                    train_build_location_key(JoinSegments(Without(descriptor, i)))
                        # location_keys.train

\* both keys built for a descriptor of three segments with the three
\* components, the slot ahead of the cabinet
C12_Witness ==
    /\ location_keys.detect_done /\ location_keys.train_done
    /\ OneSegmentEach(descriptor)
    /\ Len(descriptor) = 3
    /\ \A k \in 1..3 : Holding(descriptor, k) # {}
    /\ Holding(descriptor, 3) = {1}

\* the first segment, left to right, holding keyword k, trimmed and in lower
\* case; the sentinel when there is none
FirstHolding(segs, k) ==
    IF Holding(segs, k) = {} THEN Sentinel
    ELSE LET i == CHOOSE x \in Holding(segs, k) : \A y \in Holding(segs, k) : x <= y
         IN  StrStrip(StrLower(segs[i]))

\* C13: each component of the key is the first segment, left to right, that
\* holds the component's keyword, trimmed; with several such segments the
\* earliest is kept; with none the component is the sentinel.
C13_FirstMatchingSegmentKept ==
    /\ location_keys.detect_done =>
          location_keys.detect =
              FirstHolding(descriptor, 1) \o <<"\n">> \o FirstHolding(descriptor, 2)
                  \o <<"\n">> \o FirstHolding(descriptor, 3)
    /\ location_keys.train_done =>
          location_keys.train =
              FirstHolding(descriptor, 1) \o <<"|">> \o FirstHolding(descriptor, 2)
                  \o <<"|">> \o FirstHolding(descriptor, 3)

\* C14: a call leaves the caller's table as it was: the same column names
\* after the call as before it, whether the call returned or raised.
C14_InputTableUnchanged ==
    \A n \in 1..Len(calls) : calls[n].columns = calls[n].input.columns

\* C15: a call on a header-as-data table produces no prediction record; when
\* it gets as far as the timeline, that holds one record of one pair.
C15_HeaderAsDataYieldsNoResult ==
    \A n \in 1..Len(calls) :
        HeaderIsData(calls[n].input) =>
            /\ calls[n].results = <<>>
            /\ Successful(calls[n]) =>
                  /\ Len(calls[n].timeline) = 1
                  /\ Len(calls[n].timeline[1].records) = 1

\* a header-as-data call that passed the schema checks and built a timeline
\* whose only record holds a token of the model's vocabulary
C15_Witness ==
    \E n \in 1..Len(calls) :
        /\ HeaderIsData(calls[n].input)
        /\ Successful(calls[n])
        /\ Len(calls[n].timeline) = 1
        /\ Range(calls[n].timeline[1].records[1].alarms) \cap artifacts.vocab # {}
        /\ calls[n].results = <<>>

====
